---- MODULE Spec2Model ----
(***************************************************************************)
(* The NOAA storm-events merge-and-normalize pipeline of                   *)
(* src/src/data_cleaner.py (load_yearly_and_clean and the normalizers it   *)
(* calls), with src/src/column_groups.py as the cleaned schema.            *)
(*                                                                         *)
(* A data frame is a record [columns, rows]: the set of its column names   *)
(* and the sequence of its rows.  A row is a record of cells; a cell is    *)
(* [t, s, n] with t its kind:                                              *)
(*    "na"    a missing value (NaN, NaT, pd.NA, None)                      *)
(*    "str"   the text s                                                   *)
(*    "int"   the integer n                                                *)
(*    "float" the decimal number  s * 10^n , s a string of digits without  *)
(*            leading or trailing zeros ("" is zero)                       *)
(*    "ts"    the timestamp n minutes after 1970-01-01 00:00               *)
(* A column that is dropped leaves the set `columns`; its cells keep their *)
(* last value and are never read again by the code.                        *)
(* Text is a TLA+ string, read character by character with SubSeq.         *)
(***************************************************************************)
EXTENDS Integers, Sequences, FiniteSets, TLC

VARIABLES
    df_d,               \* the details table read for the year
    df_f,               \* the fatalities table
    df_l,               \* the locations table
    df,                 \* the frame the normalizers mutate in place (df_year)
    df_in,              \* history: the frame as first handed to a normalizer
    plan,               \* the calls still to be made, in order
    calls,              \* history: the calls that have completed
    err,                \* "none", or the exception that ended the run
    pandas              \* the major version of the pandas the code runs on: 2
                        \* (as 1: no copy-on-write, str(NaN) is "nan") or 3
                        \* (copy-on-write, astype(str) keeps a missing value)

vars == <<df_d, df_f, df_l, df, df_in, plan, calls, err, pandas>>

---------------------------------------------------------------------------
(* Bounds of the model *)

MaxLen == 3         \* longest damage text drawn over DamageAlphabet
MaxLocLen == 2      \* longest begin-location text drawn over LocAlphabet
MaxDetails == 2     \* most rows of the details table
MaxFat == 2         \* most rows of the fatalities table
MaxLoc == 2         \* most rows of the locations table
MaxMonthCode == 13  \* largest two-digit month code drawn for a YEARMONTH

---------------------------------------------------------------------------
(* Text *)

At(s, i) == SubSeq(s, i, i)

\* body(v), with v evaluated once
Bind(v, body(_)) == CHOOSE r \in {body(x) : x \in {v}} : TRUE

From(s, i) == SubSeq(s, i, Len(s))

Lowercase == "abcdefghijklmnopqrstuvwxyz"

Uppercase == "ABCDEFGHIJKLMNOPQRSTUVWXYZ"

ToUpper == [c \in {At(Lowercase, i) : i \in 1..Len(Lowercase)} |->
               At(Uppercase, CHOOSE i \in 1..Len(Lowercase) : At(Lowercase, i) = c)]

UpperChar(c) == IF c \in DOMAIN ToUpper THEN ToUpper[c] ELSE c

RECURSIVE upper(_)
upper(s) == IF s = "" THEN "" ELSE UpperChar(At(s, 1)) \o upper(From(s, 2))

RECURSIVE lstrip(_, _)
lstrip(s, chars) ==
    IF s /= "" /\ At(s, 1) \in chars THEN lstrip(From(s, 2), chars) ELSE s

RECURSIVE rstrip(_, _)
rstrip(s, chars) ==
    IF s /= "" /\ At(s, Len(s)) \in chars
    THEN rstrip(SubSeq(s, 1, Len(s) - 1), chars)
    ELSE s

\* str.strip(chars): removes every leading and trailing character of `chars`
strip(s, chars) == rstrip(lstrip(s, chars), chars)

\* the whitespace of str.strip() that the drawn texts can hold
Whitespace == {" "}

\* `key in s`
Contains(key, s) ==
    \E i \in 1..(Len(s) - Len(key) + 1) : SubSeq(s, i, i + Len(key) - 1) = key

\* any(key in s.upper() for key in keys)
AnyKeyInUpper(keys, s) == \E u \in {upper(s)} : \E key \in keys : Contains(key, u)

\* re.search(key + '$', s)
EndsWith(s, key) ==
    Len(s) >= Len(key) /\ SubSeq(s, Len(s) - Len(key) + 1, Len(s)) = key

Digits == "0123456789"

DigitValue == [c \in {At(Digits, i) : i \in 1..Len(Digits)} |->
                  (CHOOSE i \in 1..Len(Digits) : At(Digits, i) = c) - 1]

IsDigit(c) == c \in DOMAIN DigitValue

DigitVal(c) == DigitValue[c]

AllDigits(s) == \A i \in 1..Len(s) : IsDigit(At(s, i))

\* every text of at most n characters over the alphabet
RECURSIVE Texts(_, _)
Texts(alphabet, n) ==
    IF n = 0 THEN {""}
    ELSE LET shorter == Texts(alphabet, n - 1)
         IN  shorter \cup {s \o c : s \in shorter, c \in alphabet}

---------------------------------------------------------------------------
(* Cells *)

\* The rows of a frame stand for rows of a year's table: a column keeps the
\* dtype the whole table gives it (a text column is an object column also in
\* a row that lacks the value), so a missing cell is NaN in a column of its
\* kind.
NA == [t |-> "na", s |-> "", n |-> 0]

Str(x) == [t |-> "str", s |-> x, n |-> 0]

Int64(i) == [t |-> "int", s |-> "", n |-> i]

Float(ds, e) == [t |-> "float", s |-> ds, n |-> e]

Timestamp(h) == [t |-> "ts", s |-> "", n |-> h]

isna(cell) == cell.t = "na"

\* an operation's outcome: the exception it raised ("none" if it returned) and
\* the value it returned
Returned(v) == [exc |-> "none", val |-> v]

Raised(e) == [exc |-> e, val |-> NA]

---------------------------------------------------------------------------
(* Decimal numbers.  A float is kept as an exact decimal: binary rounding  *)
(* is outside the model.                                                   *)

RECURSIVE Zeros(_)
Zeros(k) == IF k <= 0 THEN "" ELSE "0" \o Zeros(k - 1)

\* the decimal  ds * 10^e  in normal form
Normalize(ds, e) ==
    LET a == lstrip(ds, {"0"})
        b == rstrip(a, {"0"})
    IN  IF b = "" THEN Float("", 0) ELSE Float(b, e + (Len(a) - Len(b)))

IsZero(x) == x.t = "float" /\ x.s = ""

RECURSIVE AddDigits(_, _, _)
AddDigits(a, b, carry) ==
    IF a = ""
    THEN IF carry = 0 THEN "" ELSE At(Digits, carry + 1)
    ELSE LET x == DigitVal(At(a, Len(a))) + DigitVal(At(b, Len(b))) + carry
         IN  AddDigits(SubSeq(a, 1, Len(a) - 1), SubSeq(b, 1, Len(b) - 1), x \div 10)
                 \o At(Digits, (x % 10) + 1)

\* x + y of two floats
Add(x, y) ==
    LET e  == IF x.n < y.n THEN x.n ELSE y.n
        a  == x.s \o Zeros(x.n - e)
        b  == y.s \o Zeros(y.n - e)
        w  == IF Len(a) > Len(b) THEN Len(a) ELSE Len(b)
    IN  Normalize(AddDigits(Zeros(w - Len(a)) \o a, Zeros(w - Len(b)) \o b, 0), e)

\* x * k for k a power of ten
RECURSIVE Log10(_)
Log10(k) == IF k < 10 THEN 0 ELSE 1 + Log10(k \div 10)

Mul(x, k) == IF IsZero(x) THEN x ELSE Float(x.s, x.n + Log10(k))

\* Python's float(text), for texts of digits, "." and blanks: surrounding
\* whitespace is ignored, then  digits [. digits]  with at least one digit.
\* Signs, exponents, underscores, "inf" and "nan" are outside the texts drawn.
py_float(text) ==
    LET parse(t) ==
            LET dots == {i \in 1..Len(t) : At(t, i) = "."}
                p    == IF dots = {} THEN Len(t) + 1 ELSE CHOOSE i \in dots : TRUE
                ip   == SubSeq(t, 1, p - 1)
                fp   == SubSeq(t, p + 1, Len(t))
            IN  IF /\ Cardinality(dots) <= 1
                   /\ AllDigits(ip) /\ AllDigits(fp)
                   /\ Len(ip) + Len(fp) >= 1
                THEN Returned(Normalize(ip \o fp, 0 - Len(fp)))
                ELSE Raised("ValueError")
    IN  Bind(strip(text, Whitespace), parse)

\* Python's str(x) of a float in positional notation (what repr gives for
\* 1e-4 <= x < 1e16, the range of the values the drawn texts parse to)
\* faulty variant of py_str_float: the text keeps the whole part only
py_str_float_whole(x) ==
    IF x.s = "" THEN "0"
    ELSE IF x.n >= 0 THEN x.s \o Zeros(x.n)
    ELSE IF Len(x.s) > 0 - x.n THEN SubSeq(x.s, 1, Len(x.s) + x.n) ELSE "0"

py_str_float(x) ==
    IF x.s = "" THEN "0.0"
    ELSE IF x.n >= 0 THEN x.s \o Zeros(x.n) \o ".0"
    ELSE IF Len(x.s) > 0 - x.n
         THEN SubSeq(x.s, 1, Len(x.s) + x.n) \o "." \o From(x.s, Len(x.s) + x.n + 1)
         ELSE "0." \o Zeros((0 - x.n) - Len(x.s)) \o x.s

\* str(val) of a cell that is not missing
py_str(val) == IF val.t = "float" THEN py_str_float(val) ELSE val.s

---------------------------------------------------------------------------
(* Frames *)

\* df.drop(columns=names, errors='ignore')
drop(frame, names) == [frame EXCEPT !.columns = @ \ names]

\* df[col] = values   (values[i] the new cell of row i)
assign(frame, col, values) ==
    [columns |-> frame.columns \cup {col},
     rows    |-> [i \in DOMAIN frame.rows |-> [frame.rows[i] EXCEPT ![col] = values[i]]]]

Done(frame) == [exc |-> "none", df |-> frame]

Failed(e, frame) == [exc |-> e, df |-> frame]

\* the exception of the first element that raised, "none" if none did
FirstExc(outs) ==
    LET bad == {i \in DOMAIN outs : outs[i].exc /= "none"}
    IN  IF bad = {} THEN "none"
        ELSE outs[CHOOSE i \in bad : \A j \in bad : i <= j].exc

---------------------------------------------------------------------------
(* clean_damage_cols *)

cols_to_drop == {"FATALITY_TYPE", "FATALITY_AGE", "FATALITY_SEX"}

\* faulty variant of multipliers: M counts thousands
multipliers_M_as_K == [c \in {"K", "M", "B"} |-> IF c = "B" THEN 1000000000 ELSE 1000]

multipliers == [c \in {"K", "M", "B"} |->
                   IF c = "K" THEN 1000 ELSE IF c = "M" THEN 1000000 ELSE 1000000000]

parse_damage(val) ==
    LET suffixed(v) ==
            LET try(f) == IF f.exc = "none"
                          THEN Returned(Mul(f.val, multipliers[At(v, Len(v))]))
                          ELSE Returned(NA)
            IN  Bind(py_float(SubSeq(v, 1, Len(v) - 1)), try)
        plain(v) ==
            LET try(f) == IF f.exc = "none" THEN Returned(f.val) ELSE Returned(NA)
            IN  Bind(py_float(v), try)
        parse(v) ==
            IF v = "" THEN Raised("IndexError")      \* val[-1] of an empty text
            ELSE IF At(v, Len(v)) \in DOMAIN multipliers THEN suffixed(v)
            ELSE plain(v)
    IN  IF isna(val) THEN Returned(NA)
        ELSE Bind(strip(upper(py_str(val)), Whitespace), parse)

\* pd.to_numeric(x, errors='coerce') of one cell
to_numeric(cell) == IF cell.t = "float" THEN cell ELSE NA

fillna(cell, v) == IF isna(cell) THEN v ELSE cell

damage_amount_cols == <<"DAMAGE_CROPS", "DAMAGE_PROPERTY">>

\* df[col] = df[col].map(parse_damage); df[col] = pd.to_numeric(df[col], ...)
ParseDamageColumn(frame, col) ==
    LET store(outs) ==
            IF FirstExc(outs) /= "none" THEN Failed(FirstExc(outs), frame)
            ELSE Done(assign(frame, col,
                             [i \in DOMAIN frame.rows |-> to_numeric(outs[i].val)]))
    IN  Bind([i \in DOMAIN frame.rows |-> parse_damage(frame.rows[i][col])], store)

\* the loop over damage_amount_cols, from its k-th column on
RECURSIVE ParseDamageColumns(_, _)
ParseDamageColumns(frame, k) ==
    IF k > Len(damage_amount_cols) THEN Done(frame)
    ELSE IF damage_amount_cols[k] \notin frame.columns
    THEN ParseDamageColumns(frame, k + 1)
    ELSE LET rest(r) == IF r.exc /= "none" THEN r ELSE ParseDamageColumns(r.df, k + 1)
         IN  Bind(ParseDamageColumn(frame, damage_amount_cols[k]), rest)

\* df["TOTAL_DAMAGE"] = property.fillna(0) + crops.fillna(0), then
\* df["TOTAL_DAMAGE"].replace(0, pd.NA, inplace=True): the replacement is made
\* on the Series df["TOTAL_DAMAGE"] returns, and reaches df only when that
\* Series writes through to its frame.  Without copy-on-write it does; with
\* copy-on-write (pandas 3) the Series is a copy and df keeps the 0.
TotalDamage(row, version) ==
    LET total == Add(fillna(row["DAMAGE_PROPERTY"], Float("", 0)),
                     fillna(row["DAMAGE_CROPS"], Float("", 0)))
    IN  IF IsZero(total) /\ version < 3 THEN NA ELSE total

clean_damage_cols(frame, version) ==
    LET total(parsed) ==
            IF parsed.exc /= "none" THEN parsed
            ELSE IF \A k \in DOMAIN damage_amount_cols :
                        damage_amount_cols[k] \in parsed.df.columns
            THEN Done(assign(parsed.df, "TOTAL_DAMAGE",
                             [i \in DOMAIN parsed.df.rows |->
                                 TotalDamage(parsed.df.rows[i], version)]))
            ELSE parsed
    IN  Bind(ParseDamageColumns(drop(frame, cols_to_drop), 1), total)

---------------------------------------------------------------------------
(* Integers as text, and the calendar *)

RECURSIVE NatToStr(_)
NatToStr(n) == IF n < 10 THEN At(Digits, n + 1)
               ELSE NatToStr(n \div 10) \o At(Digits, (n % 10) + 1)

\* str(n) of an integer
py_str_int(n) == IF n < 0 THEN "-" \o NatToStr(0 - n) ELSE NatToStr(n)

RECURSIVE DigitsToNat(_)
DigitsToNat(s) ==
    IF s = "" THEN 0
    ELSE 10 * DigitsToNat(SubSeq(s, 1, Len(s) - 1)) + DigitVal(At(s, Len(s)))

\* int(text): an optional "-" and at least one digit
py_int(text) ==
    LET t    == strip(text, Whitespace)
        neg  == t /= "" /\ At(t, 1) = "-"
        body == IF neg THEN From(t, 2) ELSE t
    IN  IF body /= "" /\ AllDigits(body)
        THEN Returned(Int64(IF neg THEN 0 - DigitsToNat(body) ELSE DigitsToNat(body)))
        ELSE Raised("ValueError")

\* text[-2:]
LastTwo(s) == IF Len(s) <= 2 THEN s ELSE SubSeq(s, Len(s) - 1, Len(s))

\* calendar.month_abbr: index 0 is the empty text
month_abbr == <<"", "Jan", "Feb", "Mar", "Apr", "May", "Jun",
                "Jul", "Aug", "Sep", "Oct", "Nov", "Dec">>

\* calendar.month_abbr[x]: a negative index counts from the end, an index
\* outside the 13 entries raises
month_abbr_getitem(x) ==
    LET i == IF x < 0 THEN x + Len(month_abbr) ELSE x
    IN  IF i >= 0 /\ i < Len(month_abbr) THEN Returned(Str(month_abbr[i + 1]))
        ELSE Raised("IndexError")

\* pd.Categorical(values, categories=list(calendar.month_abbr)[1:], ordered=True)
\* of one cell: a value that is no category becomes missing
MonthCategorical(cell) ==
    IF \E k \in 2..Len(month_abbr) : cell = Str(month_abbr[k]) THEN cell ELSE NA

IsLeap(y) == (y % 4 = 0 /\ y % 100 /= 0) \/ y % 400 = 0

DaysInMonth(y, m) ==
    IF m = 2 THEN (IF IsLeap(y) THEN 29 ELSE 28)
    ELSE IF m \in {4, 6, 9, 11} THEN 30 ELSE 31

\* days from 1970-01-01 to the civil date y-m-d
DaysFromCivil(y, m, d) ==
    LET yy  == IF m <= 2 THEN y - 1 ELSE y
        era == yy \div 400
        yoe == yy - era * 400
        mp  == IF m > 2 THEN m - 3 ELSE m + 9
        doy == (153 * mp + 2) \div 5 + d - 1
        doe == yoe * 365 + yoe \div 4 - yoe \div 100 + doy
    IN  era * 146097 + doe - 719468

\* pd.to_datetime(cell, errors='coerce') of a text "YYYY-MM-DD HH:MM": the
\* timestamp, or NaT when the cell is missing or is not a date-time
to_datetime(cell) ==
    IF cell.t = "ts" THEN cell
    ELSE IF cell.t /= "str" THEN NA
    ELSE LET s  == cell.s
             ys == SubSeq(s, 1, 4)
             ms == SubSeq(s, 6, 7)
             ds == SubSeq(s, 9, 10)
             hs == SubSeq(s, 12, 13)
             ns == SubSeq(s, 15, 16)
         IN  IF /\ Len(s) = 16
                /\ At(s, 5) = "-" /\ At(s, 8) = "-" /\ At(s, 11) = " " /\ At(s, 14) = ":"
                /\ AllDigits(ys \o ms \o ds \o hs \o ns)
                /\ DigitsToNat(ms) \in 1..12
                /\ DigitsToNat(ds) \in 1..DaysInMonth(DigitsToNat(ys), DigitsToNat(ms))
                /\ DigitsToNat(hs) \in 0..23
                /\ DigitsToNat(ns) \in 0..59
             THEN Timestamp((DaysFromCivil(DigitsToNat(ys), DigitsToNat(ms), DigitsToNat(ds)) * 24
                                + DigitsToNat(hs)) * 60 + DigitsToNat(ns))
             ELSE NA

MinutesPerDay == 24 * 60

\* faulty variant of floor_D: the time of day is kept
floor_D_kept(cell) == cell

\* Series.dt.floor('D') of one cell
floor_D(cell) == IF isna(cell) THEN NA ELSE Timestamp(cell.n - (cell.n % MinutesPerDay))

\* (ed - bd).dt.days + 1 of one row: missing when either end is
duration_days(bd, ed) ==
    IF isna(bd) \/ isna(ed) THEN NA
    ELSE Int64(((ed.n - bd.n) \div MinutesPerDay) + 1)

---------------------------------------------------------------------------
(* Column names *)

\* the columns of the three NOAA Storm Events files
DetailsColumns ==
    {"BEGIN_YEARMONTH", "BEGIN_DAY", "BEGIN_TIME", "END_YEARMONTH", "END_DAY",
     "END_TIME", "EPISODE_ID", "EVENT_ID", "STATE", "STATE_FIPS", "YEAR",
     "MONTH_NAME", "EVENT_TYPE", "CZ_TYPE", "CZ_FIPS", "CZ_NAME", "WFO",
     "BEGIN_DATE_TIME", "CZ_TIMEZONE", "END_DATE_TIME", "INJURIES_DIRECT",
     "INJURIES_INDIRECT", "DEATHS_DIRECT", "DEATHS_INDIRECT", "DAMAGE_PROPERTY",
     "DAMAGE_CROPS", "SOURCE", "MAGNITUDE", "MAGNITUDE_TYPE", "FLOOD_CAUSE",
     "CATEGORY", "TOR_F_SCALE", "TOR_LENGTH", "TOR_WIDTH", "TOR_OTHER_WFO",
     "TOR_OTHER_CZ_STATE", "TOR_OTHER_CZ_FIPS", "TOR_OTHER_CZ_NAME", "BEGIN_RANGE",
     "BEGIN_AZIMUTH", "BEGIN_LOCATION", "END_RANGE", "END_AZIMUTH", "END_LOCATION",
     "BEGIN_LAT", "BEGIN_LON", "END_LAT", "END_LON", "EPISODE_NARRATIVE",
     "EVENT_NARRATIVE", "DATA_SOURCE"}

FatalitiesColumns ==
    {"FAT_YEARMONTH", "FAT_DAY", "FAT_TIME", "FATALITY_ID", "EVENT_ID",
     "FATALITY_TYPE", "FATALITY_DATE", "FATALITY_AGE", "FATALITY_SEX",
     "FATALITY_LOCATION", "EVENT_YEARMONTH"}

LocationsColumns ==
    {"YEARMONTH", "EPISODE_ID", "EVENT_ID", "LOCATION_INDEX", "RANGE", "AZIMUTH",
     "LOCATION", "LATITUDE", "LONGITUDE", "LAT2", "LON2"}

\* every column name a frame of the pipeline can hold
ColumnNames ==
    LET raw == DetailsColumns \cup FatalitiesColumns \cup LocationsColumns
    IN  raw \cup {c \o "_x" : c \in raw} \cup {c \o "_y" : c \in raw}
            \cup {"BEGIN_MONTH", "END_MONTH", "BEGIN_MONTH_NAME", "DURATION_DAYS",
                  "LOCATION_LABEL", "TOTAL_DAMAGE"}

---------------------------------------------------------------------------
(* clean_timing_cols *)

\* column-wise: the cell each row gets from op, or the first exception
MapColumn(frame, src, dst, op(_)) ==
    LET store(outs) ==
            IF FirstExc(outs) /= "none" THEN Failed(FirstExc(outs), frame)
            ELSE Done(assign(frame, dst, [i \in DOMAIN frame.rows |-> outs[i].val]))
    IN  IF src \notin frame.columns THEN Failed("KeyError", frame)
        ELSE Bind([i \in DOMAIN frame.rows |-> op(frame.rows[i][src])], store)

\* the next statement runs only if none before it raised
Then(out, stmt(_)) ==
    LET next(o) == IF o.exc /= "none" THEN o ELSE Bind(o.df, stmt)
    IN  Bind(out, next)

\* Series.astype(int) of one cell
astype_int(cell) == IF isna(cell) THEN Raised("ValueError") ELSE Returned(cell)

\* Series.astype(str).str[-2:].astype(int) of one cell
month_of_yearmonth(cell) ==
    IF isna(cell) THEN Raised("ValueError")
    ELSE py_int(LastTwo(py_str_int(cell.n)))

timing_drop_keys == {"YEARMONTH", "_TIME", "_DATE"}

\* [c for c in df.columns if any(key in c.upper() for key in [...])], the
\* test evaluated once for every column name
timing_drop_names == {c \in ColumnNames : AnyKeyInUpper(timing_drop_keys, c)}

drop_cols(frame) == frame.columns \cap timing_drop_names

TimingDuration(frame) ==
    assign(frame, "DURATION_DAYS",
           [i \in DOMAIN frame.rows |->
               duration_days(floor_D(frame.rows[i]["BEGIN_DATE_TIME"]),
                             floor_D(frame.rows[i]["END_DATE_TIME"]))])

TimingDrop(frame) ==
    drop(drop(frame, drop_cols(frame)), {"MONTH_NAME"})

clean_timing_cols(frame) ==
    LET year(f)     == MapColumn(f, "YEAR", "YEAR", astype_int)
        bmonth(f)   == MapColumn(f, "BEGIN_YEARMONTH", "BEGIN_MONTH", month_of_yearmonth)
        emonth(f)   == MapColumn(f, "END_YEARMONTH", "END_MONTH", month_of_yearmonth)
        abbr(c)     == month_abbr_getitem(c.n)
        bname(f)    == MapColumn(f, "BEGIN_MONTH", "BEGIN_MONTH_NAME", abbr)
        cat(c)      == Returned(MonthCategorical(c))
        bcat(f)     == MapColumn(f, "BEGIN_MONTH_NAME", "BEGIN_MONTH_NAME", cat)
        dt(c)       == Returned(to_datetime(c))
        bdt(f)      == MapColumn(f, "BEGIN_DATE_TIME", "BEGIN_DATE_TIME", dt)
        edt(f)      == MapColumn(f, "END_DATE_TIME", "END_DATE_TIME", dt)
        dur(f)      == Done(TimingDuration(f))
        same(c)     == Returned(c)
        fat(f)      == MapColumn(f, "FAT_DAY", "FAT_DAY", same)
        dropped(f)  == Done(TimingDrop(f))
    IN  Then(Then(Then(Then(Then(Then(Then(Then(Then(
            year(frame), bmonth), emonth), bname), bcat), bdt), edt), dur), fat), dropped)

---------------------------------------------------------------------------
(* drop_unwanted_cols, clean_id_cols *)

unwanted_cols == {"SOURCE", "DATA_SOURCE", "CATEGORY", "EPISODE_NARRATIVE",
                  "EVENT_NARRATIVE", "STATE_FIPS", "CZ_FIPS", "TOR_OTHER_CZ_NAME",
                  "TOR_OTHER_CZ_FIPS", "TOR_OTHER_CZ_STATE", "WFO", "TOR_OTHER_WFO"}

drop_unwanted_cols(frame) == Done(drop(frame, unwanted_cols))

\* df.rename(columns={old: new}): the column and its cells take the new name
rename(frame, old, new) ==
    [columns |-> (frame.columns \ {old}) \cup {new},
     rows    |-> [i \in DOMAIN frame.rows |->
                     [frame.rows[i] EXCEPT ![new] = frame.rows[i][old]]]]

\* astype("Int64") then astype('category') keep an integer or missing cell
clean_id_cols(frame) ==
    IF "EPISODE_ID_x" \in frame.columns /\ "EPISODE_ID_y" \in frame.columns
    THEN Done(drop(rename(frame, "EPISODE_ID_x", "EPISODE_ID"), {"EPISODE_ID_y"}))
    ELSE Done(frame)

\* the columns clean_id_cols casts: re.search(r'_ID$', col.upper())
ID_names == {c \in ColumnNames : EndsWith(upper(c), "_ID")}

ID_cols(frame) == frame.columns \cap ID_names

---------------------------------------------------------------------------
(* clean_location_cols *)

location_keys == {"STATE", "LAT", "LON", "LOCATION", "RANGE", "AZIMUTH", "CZ_"}

keep_cols == {"STATE", "CZ_TYPE", "CZ_NAME", "BEGIN_LOCATION", "BEGIN_LAT", "BEGIN_LON"}

cat_cols == {"STATE", "CZ_TYPE", "CZ_NAME", "BEGIN_LOCATION"}

\* [col for col in df.columns if any(key in col.upper() for key in [...])],
\* the test evaluated once for every column name
location_names == {c \in ColumnNames : AnyKeyInUpper(location_keys, c)}

location_cols(frame) == frame.columns \cap location_names

\* Series.map({'C': 'County', 'Z': 'Zone'}) of one cell
cz_type_map(cell) ==
    IF cell = Str("C") THEN Str("County")
    ELSE IF cell = Str("Z") THEN Str("Zone") ELSE NA

\* Series.str.strip() of one cell
str_strip(cell, chars) == IF isna(cell) THEN NA ELSE Str(strip(cell.s, chars))

\* Series.astype(str) of one cell of a category column: a missing value
\* becomes the text "nan" (pandas 1.x/2.x) or stays missing (pandas 3)
astype_str(cell, version) ==
    IF isna(cell) THEN (IF version < 3 THEN Str("nan") ELSE NA) ELSE Str(py_str(cell))

\* a + b of two text cells: missing if either is
str_add(a, b) == IF isna(a) \/ isna(b) THEN NA ELSE Str(a.s \o b.s)

location_label(row, version) ==
    str_strip(str_add(str_add(str_add(str_add(fillna(row["BEGIN_LOCATION"], Str("")),
                                              Str(", ")),
                                      astype_str(row["CZ_NAME"], version)),
                              Str(", ")),
                      astype_str(row["STATE"], version)),
              {",", " "})

clean_location_cols(frame, version) ==
    LET label(f) ==
            Done(assign(f, "LOCATION_LABEL",
                        [i \in DOMAIN f.rows |-> location_label(f.rows[i], version)]))
        stripped(f) ==
            Bind(assign(f, "BEGIN_LOCATION",
                        [i \in DOMAIN f.rows |->
                            str_strip(f.rows[i]["BEGIN_LOCATION"], Whitespace)]),
                 label)
        typed(f) ==
            IF ~(cat_cols \subseteq f.columns) THEN Failed("KeyError", f)
            ELSE Bind(assign(f, "CZ_TYPE",
                             [i \in DOMAIN f.rows |-> cz_type_map(f.rows[i]["CZ_TYPE"])]),
                      stripped)
    IN  Bind(drop(frame, location_cols(frame) \ keep_cols), typed)

---------------------------------------------------------------------------
(* clean_severity_cols *)

tor_scale_map == [c \in {"EF0", "EF1", "EF2", "EF3", "EF4", "EF5"} |->
                     DigitVal(At(c, 3))]

tor_scale(cell) ==
    IF cell.t = "str" /\ cell.s \in DOMAIN tor_scale_map
    THEN Returned(Int64(tor_scale_map[cell.s]))
    ELSE Returned(NA)

clean_severity_cols(frame) ==
    MapColumn(drop(frame, {"FLOOD_CAUSE"}), "TOR_F_SCALE", "TOR_F_SCALE", tor_scale)

---------------------------------------------------------------------------
(* The merge of load_yearly_and_clean *)

\* the columns whose cells the model carries; "_d" is not a column: it
\* numbers the details rows, so that a merged row names the row it came from
ValueFields ==
    {"_d", "EVENT_ID", "FATALITY_ID", "EPISODE_ID", "EPISODE_ID_x", "EPISODE_ID_y",
     "YEAR", "BEGIN_YEARMONTH", "END_YEARMONTH", "BEGIN_MONTH", "END_MONTH",
     "BEGIN_MONTH_NAME", "BEGIN_DATE_TIME", "END_DATE_TIME", "DURATION_DAYS",
     "FAT_DAY", "STATE", "CZ_TYPE", "CZ_NAME", "BEGIN_LOCATION", "LOCATION_LABEL",
     "DAMAGE_PROPERTY", "DAMAGE_CROPS", "TOTAL_DAMAGE", "TOR_F_SCALE"}

\* left.merge(right, on=on, how="left"): every left row, in order, once per
\* right row with the same key (in the right table's order), or once with the
\* right side missing; a column name on both sides gets the suffix _x or _y
merge(left, right, on) ==
    LET rcols == right.columns \ {on}
        join(both) ==
            LET lname(c) == IF c \in both THEN c \o "_x" ELSE c
                rname(c) == IF c \in both THEN c \o "_y" ELSE c
                \* where each field of a merged row comes from
                source(lfrom, rfrom) ==
                    LET combine(lrow, matched, rrow) ==
                            [c \in ValueFields |->
                                IF c \in DOMAIN lfrom THEN lrow[lfrom[c]]
                                ELSE IF c \in DOMAIN rfrom
                                THEN (IF matched THEN rrow[rfrom[c]] ELSE NA)
                                ELSE lrow[c]]
                        rowsFor(lrow) ==
                            LET pair(js) ==
                                    IF js = <<>> THEN <<combine(lrow, FALSE, lrow)>>
                                    ELSE [k \in 1..Len(js) |->
                                             combine(lrow, TRUE, right.rows[js[k]])]
                            IN  Bind(SelectSeq([j \in 1..Len(right.rows) |-> j],
                                               LAMBDA j : right.rows[j][on] = lrow[on]),
                                     pair)
                        Joined[i \in 0..Len(left.rows)] ==
                            IF i = 0 THEN <<>> ELSE Joined[i - 1] \o rowsFor(left.rows[i])
                    IN  Joined[Len(left.rows)]
            IN  [columns |-> {lname(c) : c \in left.columns} \cup {rname(c) : c \in rcols},
                 rows    |-> Bind([c \in {lname(a) : a \in left.columns \cap ValueFields} |->
                                      CHOOSE a \in left.columns \cap ValueFields : lname(a) = c],
                                  LAMBDA lfrom :
                                  Bind([c \in {rname(b) : b \in rcols \cap ValueFields} |->
                                          CHOOSE b \in rcols \cap ValueFields : rname(b) = c],
                                       LAMBDA rfrom : source(lfrom, rfrom)))]
    IN  IF on \notin left.columns \/ on \notin right.columns
        THEN Failed("KeyError", left)
        ELSE Done(Bind((left.columns \cap right.columns) \ {on}, join))

\* faulty variant of merged: the locations are not joined
merged_without_locations(d, f, l) == merge(d, f, "EVENT_ID")

\* df_d.merge(df_f, ...) then .merge(df_l, ...)
merged(d, f, l) ==
    LET withLocations(frame) == merge(frame, l, "EVENT_ID")
    IN  Then(merge(d, f, "EVENT_ID"), withLocations)

---------------------------------------------------------------------------
(* load_yearly_and_clean and the calls a caller makes *)

\* faulty variant of Stages: the damage columns are cleaned before the
\* location columns
Stages_damage_first ==
    <<"merge", "drop_unwanted_cols", "clean_id_cols", "clean_timing_cols",
      "clean_damage_cols", "clean_location_cols", "clean_severity_cols", "return">>

\* the column groups the dashboard and the notebooks read from a cleaned frame
column_groups ==
    [id         |-> {"EPISODE_ID", "EVENT_ID", "FATALITY_ID"},
     time       |-> {"BEGIN_DAY", "END_DAY", "YEAR", "FAT_DAY", "BEGIN_MONTH", "END_MONTH",
                     "BEGIN_MONTH_NAME", "DURATION_DAYS"},
     location   |-> {"STATE", "CZ_TYPE", "CZ_NAME", "BEGIN_LOCATION", "BEGIN_LAT",
                     "BEGIN_LON", "LOCATION_LABEL"},
     damage     |-> {"INJURIES_DIRECT", "INJURIES_INDIRECT", "DEATHS_DIRECT",
                     "DEATHS_INDIRECT", "DAMAGE_PROPERTY", "DAMAGE_CROPS"},
     severity   |-> {"MAGNITUDE", "MAGNITUDE_TYPE", "TOR_F_SCALE", "TOR_LENGTH",
                     "TOR_WIDTH"},
     event_type |-> {"EVENT_TYPE"}]

\* the calls of load_yearly_and_clean, in the order of its statements
Stages == <<"merge", "drop_unwanted_cols", "clean_id_cols", "clean_timing_cols",
            "clean_location_cols", "clean_damage_cols", "clean_severity_cols",
            "return">>

\* one call: it runs when it is the next of the plan and nothing has raised;
\* the frame is mutated in place, so what a call did before it raised stays
Call(name, out) ==
    /\ plan /= <<>>
    /\ Head(plan) = name
    /\ err = "none"
    /\ df' = out.df
    /\ IF out.exc = "none"
       THEN /\ plan' = Tail(plan)
            /\ calls' = Append(calls, name)
            /\ err' = "none"
       ELSE /\ plan' = <<>>
            /\ calls' = calls
            /\ err' = out.exc
    /\ UNCHANGED <<df_d, df_f, df_l, pandas>>

Merge ==
    /\ \E out \in {merged(df_d, df_f, df_l)} : Call("merge", out)
    /\ df_in' = df'

DropUnwantedCols ==
    /\ \E out \in {drop_unwanted_cols(df)} : Call("drop_unwanted_cols", out)
    /\ UNCHANGED df_in

CleanIdCols ==
    /\ \E out \in {clean_id_cols(df)} : Call("clean_id_cols", out)
    /\ UNCHANGED df_in

CleanTimingCols ==
    /\ \E out \in {clean_timing_cols(df)} : Call("clean_timing_cols", out)
    /\ UNCHANGED df_in

CleanLocationCols ==
    /\ \E out \in {clean_location_cols(df, pandas)} : Call("clean_location_cols", out)
    /\ UNCHANGED df_in

CleanDamageCols ==
    /\ \E out \in {clean_damage_cols(df, pandas)} : Call("clean_damage_cols", out)
    /\ UNCHANGED df_in

CleanSeverityCols ==
    /\ \E out \in {clean_severity_cols(df)} : Call("clean_severity_cols", out)
    /\ UNCHANGED df_in

Return ==
    /\ \E out \in {Done(df)} : Call("return", out)
    /\ UNCHANGED df_in

Next ==
    \/ Merge
    \/ DropUnwantedCols
    \/ CleanIdCols
    \/ CleanTimingCols
    \/ CleanLocationCols
    \/ CleanDamageCols
    \/ CleanSeverityCols
    \/ Return

---------------------------------------------------------------------------
(* The tables read for a year *)

EmptyFrame == [columns |-> {}, rows |-> <<>>]

BlankRow == [c \in ValueFields |-> NA]

\* row i of a details table, for event e
DetailsRow(i, e) ==
    [BlankRow EXCEPT
        !["_d"] = Int64(i),
        !["EVENT_ID"] = Int64(e),
        !["EPISODE_ID"] = Int64(e),
        !["YEAR"] = Int64(2001),
        !["BEGIN_YEARMONTH"] = Int64(200103),
        !["END_YEARMONTH"] = Int64(200104),
        !["BEGIN_DATE_TIME"] = Str("2001-03-30 23:59"),
        !["END_DATE_TIME"] = Str("2001-04-01 00:00"),
        !["STATE"] = Str("IL"),
        !["CZ_TYPE"] = Str("C"),
        !["CZ_NAME"] = Str("Cook"),
        !["BEGIN_LOCATION"] = Str(" Chicago "),
        !["DAMAGE_PROPERTY"] = Str("25K"),
        !["DAMAGE_CROPS"] = Str("0"),
        !["TOR_F_SCALE"] = Str("EF3")]

\* row j of a fatalities table, for event e
FatalitiesRow(j, e) ==
    [BlankRow EXCEPT
        !["EVENT_ID"] = Int64(e),
        !["FATALITY_ID"] = Int64(j),
        !["FAT_DAY"] = Int64(30)]

\* a row of a locations table, for event e
LocationsRow(e) ==
    [BlankRow EXCEPT !["EVENT_ID"] = Int64(e), !["EPISODE_ID"] = Int64(e)]

Events == {1, 2}

\* a fatality or a location can name an event the details table does not hold
FatalityEvents == Events

\* columns a year's files may lack
OptionalDetails == {"DAMAGE_PROPERTY", "DAMAGE_CROPS", "YEAR", "TOR_F_SCALE",
                    "EPISODE_ID"}

OptionalFatalities == {"EVENT_ID", "FAT_DAY"}

OptionalLocations == {"EPISODE_ID"}

PandasVersions == {2, 3}

\* a run starts with nothing called and nothing raised
Fresh(todo) ==
    /\ plan = todo
    /\ calls = <<>>
    /\ err = "none"

\* load_yearly_and_clean(year) on the files of a year: one event, with its
\* fatalities and one location, some columns lacking
Init ==
    /\ pandas \in PandasVersions
    /\ \E lack \in SUBSET OptionalDetails :
          df_d = [columns |-> DetailsColumns \ lack, rows |-> <<DetailsRow(1, 1)>>]
    /\ \E lack \in {{}} \cup {{c} : c \in OptionalFatalities} : \E n \in 0..MaxFat :
          df_f = [columns |-> FatalitiesColumns \ lack,
                  rows    |-> [j \in 1..n |-> FatalitiesRow(j, 1)]]
    /\ \E lack \in SUBSET OptionalLocations :
          df_l = [columns |-> LocationsColumns \ lack, rows |-> <<LocationsRow(1)>>]
    /\ df = EmptyFrame
    /\ df_in = EmptyFrame
    /\ Fresh(Stages)

Spec == Init /\ [][Next]_vars

\* the merge alone, on tables of every shape with the full columns
InitMerge ==
    /\ pandas \in PandasVersions
    /\ \E n \in 1..MaxDetails : \E ev \in [1..n -> Events] :
          df_d = [columns |-> DetailsColumns,
                  rows    |-> [i \in 1..n |-> DetailsRow(i, ev[i])]]
    /\ \E n \in 0..MaxFat : \E ev \in [1..n -> FatalityEvents] :
          df_f = [columns |-> FatalitiesColumns,
                  rows    |-> [j \in 1..n |-> FatalitiesRow(j, ev[j])]]
    /\ \E n \in 0..MaxLoc : \E ev \in [1..n -> Events] :
          df_l = [columns |-> LocationsColumns,
                  rows    |-> [j \in 1..n |-> LocationsRow(ev[j])]]
    /\ df = EmptyFrame
    /\ df_in = EmptyFrame
    /\ Fresh(<<"merge">>)

SpecMerge == InitMerge /\ [][Merge]_vars

---------------------------------------------------------------------------
(* A normalizer called on a frame: the frame the pipeline hands it for one *)
(* event with one fatality and one location, with the cells under study    *)
(* drawn from bounded sets.                                                *)

MergedFrame ==
    merged([columns |-> DetailsColumns, rows |-> <<DetailsRow(1, 1)>>],
           [columns |-> FatalitiesColumns, rows |-> <<FatalitiesRow(1, 1)>>],
           [columns |-> LocationsColumns, rows |-> <<LocationsRow(1)>>]).df

TimingFrame == clean_id_cols(drop_unwanted_cols(MergedFrame).df).df

LocationFrame == clean_timing_cols(TimingFrame).df

DamageFrame == clean_location_cols(LocationFrame, 2).df

\* the one-row frame with the given cells in place of the frame's
WithCells(frame, cells) ==
    [columns |-> frame.columns,
     rows    |-> <<[c \in ValueFields |->
                      IF c \in DOMAIN cells THEN cells[c] ELSE frame.rows[1][c]]>>]

Alone(frame, todo) ==
    /\ pandas \in PandasVersions
    /\ df_d = EmptyFrame
    /\ df_f = EmptyFrame
    /\ df_l = EmptyFrame
    /\ df = frame
    /\ df_in = frame
    /\ Fresh(todo)

\* the characters damage texts are drawn over: digits, the point, suffixes
\* in both cases, a blank and a letter that is no suffix
DamageAlphabet == {"0", "5", ".", "K", "m", " ", "a"}

DamageDrawn == {NA} \cup {Str(s) : s \in Texts(DamageAlphabet, MaxLen)}

DamageSamples == {NA, Str(""), Str("0"), Str("10"), Str("7"), Str("25K"), Str(" 25k "),
                  Str("2.5M"), Str("100B"), Str("abc"), Str("K"), Float("", 0)}

DamageFew == {NA, Str("0"), Str("10")}

DamageCases ==
    LET case(p, c) == [DAMAGE_PROPERTY |-> p, DAMAGE_CROPS |-> c]
    IN  {case(a, b) : a \in DamageDrawn, b \in DamageFew}
            \cup {case(b, a) : a \in DamageDrawn, b \in DamageFew}
            \cup {case(a, b) : a \in DamageSamples, b \in DamageSamples}

\* clean_damage_cols(df), and again on its result
InitDamage ==
    \E cells \in DamageCases : \E lack \in SUBSET {"DAMAGE_PROPERTY", "DAMAGE_CROPS"} :
        /\ lack /= {} => (cells.DAMAGE_PROPERTY \in DamageFew /\ cells.DAMAGE_CROPS \in DamageFew)
        /\ Alone(drop(WithCells(DamageFrame, cells), lack),
                 <<"clean_damage_cols", "clean_damage_cols">>)

SpecDamage == InitDamage /\ [][CleanDamageCols]_vars

Pad2(n) == IF n < 10 THEN "0" \o NatToStr(n) ELSE NatToStr(n)

\* the text of a date-time, as the files give it
DateTimeText(y, m, d, hh, mm) ==
    NatToStr(y) \o "-" \o Pad2(m) \o "-" \o Pad2(d) \o " " \o Pad2(hh) \o ":" \o Pad2(mm)

DrawnYears == {2000, 2001}

DrawnMonths == {1, 2, 3, 12, 13}

DrawnDays == {1, 28, 29, 30, 31}

DrawnTimes == {<<0, 0>>, <<23, 59>>}

\* date-times, valid or not (2001-02-29, a 13th month), no text, other text
DateTimeDrawn ==
    {NA, Str(""), Str("unknown")}
        \cup {Str(DateTimeText(y, m, d, hm[1], hm[2])) :
                 y \in DrawnYears, m \in DrawnMonths, d \in DrawnDays, hm \in DrawnTimes}

\* year-month codes: a month code alone, or after the year
YearMonthDrawn == {Int64(base + mm) : base \in {0, 200100}, mm \in 0..MaxMonthCode}

TimingCases ==
    {[BEGIN_DATE_TIME |-> b, END_DATE_TIME |-> e] :
        b \in DateTimeDrawn, e \in DateTimeDrawn}
        \cup {[BEGIN_YEARMONTH |-> b, END_YEARMONTH |-> e] :
                 b \in YearMonthDrawn, e \in YearMonthDrawn}

\* clean_timing_cols(df)
InitTiming ==
    \E cells \in TimingCases :
        Alone(WithCells(TimingFrame, cells), <<"clean_timing_cols">>)

SpecTiming == InitTiming /\ [][CleanTimingCols]_vars

LocAlphabet == {"A", " ", ","}

LocationCases ==
    {("BEGIN_LOCATION" :> b) @@ ("CZ_NAME" :> z) @@ ("STATE" :> s) :
        b \in {NA} \cup {Str(x) : x \in Texts(LocAlphabet, MaxLocLen)},
        z \in {NA, Str(""), Str("Cook")},
        s \in {NA, Str(""), Str("IL")}}

\* clean_location_cols(df)
InitLocation ==
    \E cells \in LocationCases :
        Alone(WithCells(LocationFrame, cells), <<"clean_location_cols">>)

SpecLocation == InitLocation /\ [][CleanLocationCols]_vars

---------------------------------------------------------------------------
(* Properties of clean_damage_cols (SpecDamage) *)

\* the first call of the plan has returned
FirstCallReturned == Len(calls) >= 1

\* the first call of the plan has returned or raised
FirstCallEnded == Len(calls) >= 1 \/ err /= "none"

DamageColumnsIn(frame) ==
    {damage_amount_cols[k] : k \in DOMAIN damage_amount_cols} \cap frame.columns

\* damage values that are no amount: null, empty, blank, a bare suffix, other text
MalformedDamage == {NA, Str(""), Str(" "), Str("  "), Str("K"), Str("m"), Str("abc"), Str("a")}

\* C1: damage parsing never raises: whatever the two damage cells hold, the
\* call ends without an exception, and a null, empty, blank, bare-suffix or
\* otherwise malformed cell is missing afterwards.
C1_DamageParsingNeverRaises ==
    (FirstCallEnded /\ DamageColumnsIn(df_in) = DamageColumnsIn(DamageFrame)) =>
        /\ err = "none"
        /\ \A col \in DamageColumnsIn(df_in) :
              df_in.rows[1][col] \in MalformedDamage => isna(df.rows[1][col])

\* C4: after clean_damage_cols, TOTAL_DAMAGE is DAMAGE_PROPERTY + DAMAGE_CROPS
\* with a missing amount counted as zero, and a sum of exactly zero is stored
\* as missing.
C4_TotalDamage ==
    (FirstCallReturned /\ DamageColumnsIn(df_in) = DamageColumnsIn(DamageFrame)) =>
        LET sum == Add(fillna(df.rows[1]["DAMAGE_PROPERTY"], Float("", 0)),
                       fillna(df.rows[1]["DAMAGE_CROPS"], Float("", 0)))
        IN  /\ "TOTAL_DAMAGE" \in df.columns
            /\ df.rows[1]["TOTAL_DAMAGE"] = IF IsZero(sum) THEN NA ELSE sum

\* the decimal i * 10^e, from the number i
RECURSIVE DecimalOf(_, _)
DecimalOf(i, e) ==
    IF i = 0 THEN Float("", 0)
    ELSE IF i % 10 = 0 THEN DecimalOf(i \div 10, e + 1)
    ELSE Float(NatToStr(i), e)

SuffixPower == [s \in {"", "K", "k", "M", "m", "B", "b"} |->
                   IF s = "" THEN 0
                   ELSE IF s \in {"K", "k"} THEN 3
                   ELSE IF s \in {"M", "m"} THEN 6 ELSE 9]

\* <<text, amount>> for the texts  blanks number suffix blanks : whole numbers
\* up to 600 and numbers with one decimal up to 60.9
AmountOfText ==
    LET whole == {<<NatToStr(i), i, 0>> : i \in 0..600}
        tenth == {<<NatToStr(i) \o "." \o NatToStr(f), 10 * i + f, 0 - 1>> :
                     i \in 0..60, f \in 0..9}
    IN  {<<l \o x[1] \o s \o r, DecimalOf(x[2], x[3] + SuffixPower[s])>> :
            l \in {"", " "}, x \in whole \cup tenth, s \in DOMAIN SuffixPower, r \in {"", " "}}

AmountTexts == {p[1] : p \in AmountOfText}

\* C5: a damage text  number [K|M|B]  in either case and with surrounding
\* blanks parses to the number times 1000, 1000000, 1000000000, or to the
\* number itself without a suffix.
C5_SuffixMultiplies ==
    FirstCallReturned =>
        \A col \in DamageColumnsIn(df_in) :
            (df_in.rows[1][col].t = "str" /\ df_in.rows[1][col].s \in AmountTexts)
                => <<df_in.rows[1][col].s, df.rows[1][col]>> \in AmountOfText

\* C5 witness: " 25k " has been parsed to 25000 and "2.5M" to 2500000
C5_Witness ==
    /\ FirstCallReturned
    /\ df_in.rows[1]["DAMAGE_PROPERTY"] = Str(" 25k ")
    /\ df.rows[1]["DAMAGE_PROPERTY"] = Float("25", 3)
    /\ df_in.rows[1]["DAMAGE_CROPS"] = Str("2.5M")
    /\ df.rows[1]["DAMAGE_CROPS"] = Float("25", 5)

DamageCells(frame) ==
    [c \in {"DAMAGE_PROPERTY", "DAMAGE_CROPS", "TOTAL_DAMAGE"} |-> frame.rows[1][c]]

\* C9: clean_damage_cols on a frame it has already cleaned does not raise and
\* leaves DAMAGE_PROPERTY, DAMAGE_CROPS and TOTAL_DAMAGE (and the columns) as
\* they were.
C9_DamageIdempotent ==
    [][(Len(calls) = 1 /\ err = "none")
          => (/\ err' = "none"
              /\ Len(calls') = 2
              /\ df'.columns = df.columns
              /\ DamageCells(df') = DamageCells(df))]_vars

\* C9 witness: the second call has returned on amounts with a fraction, a
\* suffix and a missing value among them
C9_Witness ==
    /\ Len(calls) = 2
    /\ df_in.rows[1]["DAMAGE_PROPERTY"] = Str(".5K")
    /\ df.rows[1]["DAMAGE_PROPERTY"] = Float("5", 2)
    /\ df.rows[1]["DAMAGE_CROPS"] = NA
    /\ df.rows[1]["TOTAL_DAMAGE"] = Float("5", 2)

---------------------------------------------------------------------------
(* Properties of clean_timing_cols (SpecTiming) *)

\* the calendar dates of the drawn years
CalendarDates ==
    {c \in {<<y, m, d>> : y \in DrawnYears, m \in 1..12, d \in 1..31} :
        c[3] <= DaysInMonth(c[1], c[2])}

\* <<text, date>> for every date-time text of a calendar date
DateOfText ==
    {<<DateTimeText(c[1], c[2], c[3], hm[1], hm[2]), c>> :
        c \in CalendarDates, hm \in DrawnTimes}

DateTimeTexts == {p[1] : p \in DateOfText}

IsDateTime(cell) == cell.t = "str" /\ cell.s \in DateTimeTexts

DateOf(cell) == (CHOOSE p \in DateOfText : p[1] = cell.s)[2]

NotAfter(a, b) ==
    \/ a[1] < b[1]
    \/ a[1] = b[1] /\ a[2] < b[2]
    \/ a[1] = b[1] /\ a[2] = b[2] /\ a[3] <= b[3]

\* how many calendar dates lie from a to b, both included
InclusiveDays(a, b) ==
    Cardinality({c \in CalendarDates : NotAfter(a, c) /\ NotAfter(c, b)})

\* C2 as stated: DURATION_DAYS is null iff the begin or the end timestamp is
\* null; otherwise it is at least 1 and is the number of calendar days from
\* the begin day to the end day, both included.
C2_DurationAtLeastOne ==
    FirstCallReturned =>
        LET b   == df_in.rows[1]["BEGIN_DATE_TIME"]
            e   == df_in.rows[1]["END_DATE_TIME"]
            dur == df.rows[1]["DURATION_DAYS"]
        IN  /\ isna(dur) <=> (~IsDateTime(b) \/ ~IsDateTime(e))
            /\ ~isna(dur) =>
                  /\ dur.n >= 1
                  /\ dur = Int64(InclusiveDays(DateOf(b), DateOf(e)))

\* C2 amended: DURATION_DAYS is null iff the begin or the end timestamp is
\* null (the text is no date-time). Otherwise, when the end day is not before
\* the begin day it is the number of calendar days from the begin day to the
\* end day, both included, hence at least 1; when the end day is before the
\* begin day it is 1 minus the number of days the end day is earlier, hence
\* at most 0.
C2_Duration ==
    FirstCallReturned =>
        LET b   == df_in.rows[1]["BEGIN_DATE_TIME"]
            e   == df_in.rows[1]["END_DATE_TIME"]
            dur == df.rows[1]["DURATION_DAYS"]
        IN  /\ "DURATION_DAYS" \in df.columns
            /\ isna(dur) <=> (~IsDateTime(b) \/ ~IsDateTime(e))
            /\ (IsDateTime(b) /\ IsDateTime(e)) =>
                  IF NotAfter(DateOf(b), DateOf(e))
                  THEN /\ dur = Int64(InclusiveDays(DateOf(b), DateOf(e)))
                       /\ dur.n >= 1
                  ELSE /\ dur = Int64(2 - InclusiveDays(DateOf(e), DateOf(b)))
                       /\ dur.n <= 0

\* C2 witness: an event from the last minute of 2000-02-28 to the first of
\* 2000-03-01 has got three days
C2_Witness ==
    /\ FirstCallReturned
    /\ df_in.rows[1]["BEGIN_DATE_TIME"] = Str("2000-02-28 23:59")
    /\ df_in.rows[1]["END_DATE_TIME"] = Str("2000-03-01 00:00")
    /\ df.rows[1]["DURATION_DAYS"] = Int64(3)

MonthCode(cell) == cell.n % 100

\* C8: a begin or end month outside 1..12 is reported: the call raises, it
\* does not return with the month kept as it is or hidden as a missing name.
C8_CorruptMonthReported ==
    (/\ FirstCallEnded
     /\ \/ MonthCode(df_in.rows[1]["BEGIN_YEARMONTH"]) \notin 1..12
        \/ MonthCode(df_in.rows[1]["END_YEARMONTH"]) \notin 1..12)
        => err /= "none"

---------------------------------------------------------------------------
(* Properties of the merge (SpecMerge) *)

\* the rows of a table for the event of a key
Matching(frame, key) == {j \in 1..Len(frame.rows) : frame.rows[j]["EVENT_ID"] = key}

\* the merged rows that come from detail row i
RowsOfDetail(i) == {r \in 1..Len(df.rows) : df.rows[r]["_d"] = Int64(i)}

AtLeastOne(n) == IF n = 0 THEN 1 ELSE n

\* C3 as stated: a detail row whose event has k fatality rows appears exactly
\* max(1, k) times in the merged frame, and no other rows are produced.
C3_OneRowPerFatality ==
    FirstCallReturned =>
        /\ \A r \in 1..Len(df.rows) : df.rows[r]["_d"].n \in 1..Len(df_d.rows)
        /\ \A i \in 1..Len(df_d.rows) :
              Cardinality(RowsOfDetail(i))
                  = AtLeastOne(Cardinality(Matching(df_f, df_d.rows[i]["EVENT_ID"])))

\* C3 amended: a detail row whose event has k fatality rows and j location
\* rows appears exactly max(1, k) * max(1, j) times in the merged frame: once
\* per fatality and location, with the fatality fields null when k = 0; every
\* detail row appears at least once and no other rows are produced.
C3_RowsPerDetail ==
    FirstCallReturned =>
        /\ \A r \in 1..Len(df.rows) : df.rows[r]["_d"].n \in 1..Len(df_d.rows)
        /\ \A i \in 1..Len(df_d.rows) :
              LET fs == Matching(df_f, df_d.rows[i]["EVENT_ID"])
                  ls == Matching(df_l, df_d.rows[i]["EVENT_ID"])
              IN  /\ Cardinality(RowsOfDetail(i))
                        = AtLeastOne(Cardinality(fs)) * AtLeastOne(Cardinality(ls))
                  /\ RowsOfDetail(i) /= {}
                  /\ \A r \in RowsOfDetail(i) :
                        /\ df.rows[r]["EVENT_ID"] = df_d.rows[i]["EVENT_ID"]
                        /\ fs = {} => isna(df.rows[r]["FATALITY_ID"])
                  /\ \A f \in fs :
                        Cardinality({r \in RowsOfDetail(i) :
                                        df.rows[r]["FATALITY_ID"] = df_f.rows[f]["FATALITY_ID"]})
                            = AtLeastOne(Cardinality(ls))

\* C3 witness: of two detail rows, the first has two fatalities and two
\* locations and is merged into four rows, the second has none and is merged
\* into one
C3_Witness ==
    /\ FirstCallReturned
    /\ Len(df_d.rows) = 2
    /\ Cardinality(Matching(df_f, df_d.rows[1]["EVENT_ID"])) = 2
    /\ Cardinality(Matching(df_l, df_d.rows[1]["EVENT_ID"])) = 2
    /\ Cardinality(RowsOfDetail(1)) = 4
    /\ Cardinality(RowsOfDetail(2)) = 1
    /\ Len(df.rows) = 5

---------------------------------------------------------------------------
(* Properties of clean_location_cols (SpecLocation) *)

TextOf(cell) == IF isna(cell) THEN "" ELSE cell.s

RECURSIVE JoinWith(_, _)
JoinWith(parts, sep) ==
    IF parts = <<>> THEN ""
    ELSE IF Len(parts) = 1 THEN parts[1]
    ELSE parts[1] \o sep \o JoinWith(Tail(parts), sep)

\* C6: LOCATION_LABEL is the non-empty parts among the trimmed begin
\* location, the zone name and the state, in that order, joined with ", ": a
\* missing or empty part adds nothing and leaves no separator behind.
C6_LabelJoinsNonEmptyParts ==
    FirstCallReturned =>
        LET row   == df_in.rows[1]
            parts == <<strip(TextOf(row["BEGIN_LOCATION"]), Whitespace),
                       TextOf(row["CZ_NAME"]), TextOf(row["STATE"])>>
        IN  df.rows[1]["LOCATION_LABEL"]
                = Str(JoinWith(SelectSeq(parts, LAMBDA x : x /= ""), ", "))

---------------------------------------------------------------------------
(* Properties of load_yearly_and_clean (Spec) *)

\* the columns of a cleaned frame: the column groups and the total damage
CleanedSchema ==
    UNION {column_groups[g] : g \in DOMAIN column_groups} \cup {"TOTAL_DAMAGE"}

\* C7: whichever columns the files of a period have or lack, a frame that
\* load_yearly_and_clean returns has exactly the columns of the cleaned
\* schema, TOTAL_DAMAGE and LOCATION_LABEL among them.
C7_StableSchema ==
    ("return" \in {calls[k] : k \in DOMAIN calls}) => df.columns = CleanedSchema

\* the stages the orchestrator names, in their order
StageOrder ==
    <<"merge", "clean_id_cols", "clean_timing_cols", "clean_location_cols",
      "clean_damage_cols", "clean_severity_cols", "return">>

\* C10: the stages run in the order merge, clean_id_cols, clean_timing_cols,
\* clean_location_cols, clean_damage_cols, clean_severity_cols, each at most
\* once and each only after the one before it has returned, and the frame is
\* returned only after clean_severity_cols: the stages that have run are
\* always the first ones of that order.
C10_FixedOrder ==
    LET ran == SelectSeq(calls, LAMBDA c : c \in {StageOrder[k] : k \in DOMAIN StageOrder})
    IN  /\ Len(ran) <= Len(StageOrder)
        /\ ran = SubSeq(StageOrder, 1, Len(ran))
        /\ (plan /= <<>> /\ Head(plan) \in {StageOrder[k] : k \in DOMAIN StageOrder})
              => Head(plan) = StageOrder[Len(ran) + 1]

\* C10 witness: the frame has been returned after all six stages
C10_Witness ==
    /\ calls /= <<>>
    /\ calls[Len(calls)] = "return"
    /\ SelectSeq(calls, LAMBDA c : c /= "drop_unwanted_cols") = StageOrder

====
